---- MODULE Spec2Model ----
(***************************************************************************)
(* Model of the simple_arguments crate (src/src/lib.rs) as it is driven by *)
(* src/src/bin/main.rs: an Arguments registry is created empty, bindings   *)
(* are registered with add / add_bool, and parse is run on a token list.   *)
(*                                                                         *)
(* A token is a sequence of one-character strings, so that the "--" prefix *)
(* test, the prefix stripping and FromStr are computed as the code does.   *)
(* A text produced by format! is a sequence of string fragments whose      *)
(* concatenation is the text.                                              *)
(*                                                                         *)
(* Spec registers each name at most once (as main.rs does) and parses an   *)
(* argument list of up to MaxLen tokens.  SpecReg also registers a name    *)
(* again, up to MaxRegs calls, and parses up to ShortLen tokens.  In both, *)
(* parse is called once, after the registrations, and a caller variable is *)
(* lent to at most one registration (a &mut borrow lasts as long as the    *)
(* registry).                                                              *)
(***************************************************************************)
EXTENDS Integers, Sequences, FiniteSets, TLC

(* ------------------------------ bounds -------------------------------- *)

\* longest argument list handed to parse
MaxLen == 4

\* most registration calls (add / add_bool) made when names are re-registered
MaxRegs == 2

\* longest argument list handed to parse after re-registrations
ShortLen == 2

(* ------------------------- the caller's side -------------------------- *)

\* the caller-owned variables of main.rs, each with its Rust type
Slots == {"number", "string", "boolean", "help"}

SlotType ==
    [s \in Slots |->
        CASE s = "number"  -> "usize"
          [] s = "string"  -> "String"
          [] s = "boolean" -> "bool"
          [] s = "help"    -> "bool"]

\* the values the caller's variables hold when the registry is built: the
\* caller's choice; number as in simple_test, help already true so that a
\* write of false to it would show
InitialVars ==
    [s \in Slots |->
        CASE s = "number"  -> 12
          [] s = "string"  -> <<>>
          [] s = "boolean" -> FALSE
          [] s = "help"    -> TRUE]

\* flag names the caller registers
Names == {<<"a">>, <<"b">>}

\* the description the caller gives when it registers a variable (main.rs)
DescriptionOf ==
    [s \in Slots |->
        CASE s = "number"  -> "a number"
          [] s = "string"  -> "a string"
          [] s = "boolean" -> "a boolean value"
          [] s = "help"    -> "displays the help message"]

\* the tokens an argument list is drawn from
Tokens ==
    { <<"-", "-", "a">>, <<"-", "-", "b">>,
      <<"1">>, <<"2">>, <<"t", "r", "u", "e">> }

RECURSIVE SeqsUpTo(_, _)
SeqsUpTo(S, n) ==
    IF n = 0 THEN {<<>>}
    ELSE LET shorter == SeqsUpTo(S, n - 1)
         IN  shorter \cup {Append(q, x) : q \in {r \in shorter : Len(r) = n - 1}, x \in S}

Inputs == SeqsUpTo(Tokens, MaxLen)

ShortInputs == SeqsUpTo(Tokens, ShortLen)

(* ------------------------------ FromStr ------------------------------- *)

Digits == <<"0", "1", "2", "3", "4", "5", "6", "7", "8", "9">>

IsDigit(c) == \E d \in 1..10 : Digits[d] = c

DigitValue(c) == (CHOOSE d \in 1..10 : Digits[d] = c) - 1

RECURSIVE DecimalValue(_)
DecimalValue(ds) ==
    IF ds = <<>> THEN 0
    ELSE 10 * DecimalValue(SubSeq(ds, 1, Len(ds) - 1)) + DigitValue(ds[Len(ds)])

\* <usize as FromStr>::from_str: an optional "+", then one or more digits
\* (a number above usize::MAX fails too; no token here has that many digits)
UsizeFromStr(item) ==
    LET ds == IF item # <<>> /\ item[1] = "+" THEN Tail(item) ELSE item
    IN  IF ds # <<>> /\ \A i \in 1..Len(ds) : IsDigit(ds[i])
        THEN [ok |-> TRUE, val |-> DecimalValue(ds)]
        ELSE [ok |-> FALSE, val |-> 0]

\* <bool as FromStr>::from_str: exactly "true" or "false"
BoolFromStr(item) ==
    IF item = <<"t", "r", "u", "e">> THEN [ok |-> TRUE, val |-> TRUE]
    ELSE IF item = <<"f", "a", "l", "s", "e">> THEN [ok |-> TRUE, val |-> FALSE]
    ELSE [ok |-> FALSE, val |-> FALSE]

\* <String as FromStr>::from_str: never fails
StringFromStr(item) == [ok |-> TRUE, val |-> item]

FromStr(ty, item) ==
    CASE ty = "usize"  -> UsizeFromStr(item)
      [] ty = "bool"   -> BoolFromStr(item)
      [] ty = "String" -> StringFromStr(item)

\* std::any::type_name::<T>()
TypeName(ty) ==
    CASE ty = "usize"  -> "usize"
      [] ty = "bool"   -> "bool"
      [] ty = "String" -> "alloc::string::String"

(* ------------------------------- state -------------------------------- *)

VARIABLES
    pc,         \* "reg": registering; "done": parse has returned
    flags,      \* Arguments.flags: flag name -> Flag
    borrowed,   \* caller variables mutably borrowed by a registration
    vars,       \* the caller's variables
    log,        \* the registration calls made so far, in order
    arguments,  \* the argument list parse was called with
    ret         \* what parse returned: Ok(leftovers) or Err(error)

state == <<pc, flags, borrowed, vars, log, arguments, ret>>

\* a faulty insert that keeps the entry already present (entry().or_insert):
\* C8 fails against it
InsertIfAbsent(m, k, v) ==
    [x \in DOMAIN m \cup {k} |-> IF x \in DOMAIN m THEN m[x] ELSE v]

\* HashMap::insert
Insert(m, k, v) == [x \in DOMAIN m \cup {k} |-> IF x = k THEN v ELSE m[x]]

\* Flag { description, value: Box<dyn Filler> }; the filler is a BooleanFlag
\* (kind "flag") or a &mut T (kind "scalar") over the caller's variable slot
NewFlag(description, kind, slot) ==
    [description |-> description, kind |-> kind, slot |-> slot]

(* ------------------------------- parse -------------------------------- *)

StartsWithDashes(a) == Len(a) >= 2 /\ a[1] = "-" /\ a[2] = "-"

\* a faulty flags vector that keeps the "--" prefix: C4 fails against it
FlagsOfKeepPrefix(args) == SelectSeq(args, StartsWithDashes)

\* the flags vector of parse: the "--" tokens, prefix stripped, in order
FlagsOf(args) ==
    LET fs == SelectSeq(args, StartsWithDashes)
    IN  [i \in 1..Len(fs) |-> SubSeq(fs[i], 3, Len(fs[i]))]

\* a faulty values vector that drops the value tokens standing before the
\* first flag token: C1 fails against it
ValuesOfAfterFirstFlag(args) ==
    LET first == CHOOSE i \in 1..(Len(args) + 1) :
                    /\ i <= Len(args) => StartsWithDashes(args[i])
                    /\ \A j \in 1..(i - 1) : ~StartsWithDashes(args[j])
    IN  SelectSeq(SubSeq(args, first, Len(args)), LAMBDA a : ~StartsWithDashes(a))

\* the values vector of parse: all other tokens, in order
ValuesOf(args) == SelectSeq(args, LAMBDA a : ~StartsWithDashes(a))

\* a faulty BooleanFlag::fill that takes a value token from the iterator:
\* C7 fails against it
FillBooleanFlagTakesValue(slot, vs, values, pos) ==
    [err |-> "none", vars |-> [vs EXCEPT ![slot] = TRUE], pos |-> pos + 1]

\* a faulty BooleanFlag::fill that flips the variable: C10 fails against it
FillBooleanFlagToggle(slot, vs, values, pos) ==
    [err |-> "none", vars |-> [vs EXCEPT ![slot] = ~vs[slot]], pos |-> pos]

\* BooleanFlag::fill: sets the variable, leaves the iterator alone
FillBooleanFlag(slot, vs, values, pos) ==
    [err |-> "none", vars |-> [vs EXCEPT ![slot] = TRUE], pos |-> pos]

\* a faulty scalar fill that succeeds without writing when the iterator is
\* exhausted: C5 fails against it
FillScalarSkipWhenEmpty(slot, vs, values, pos) ==
    IF pos > Len(values)
    THEN [err |-> "none", vars |-> vs, pos |-> pos]
    ELSE LET r == FromStr(SlotType[slot], values[pos])
         IN  IF r.ok
             THEN [err |-> "none", vars |-> [vs EXCEPT ![slot] = r.val], pos |-> pos + 1]
             ELSE [err |-> "Err", vars |-> vs, pos |-> pos + 1]

\* a faulty scalar fill that stores T::default() when the conversion fails:
\* C6 fails against it
FillScalarWriteDefault(slot, vs, values, pos) ==
    IF pos > Len(values)
    THEN [err |-> "OutOfArgs", vars |-> vs, pos |-> pos]
    ELSE LET r == FromStr(SlotType[slot], values[pos])
         IN  IF r.ok
             THEN [err |-> "none", vars |-> [vs EXCEPT ![slot] = r.val], pos |-> pos + 1]
             ELSE [err |-> "Err", vars |-> [vs EXCEPT ![slot] = r.val], pos |-> pos + 1]

\* a faulty scalar fill that reads the next value token without consuming it:
\* C9 fails against it
FillScalarPeek(slot, vs, values, pos) ==
    IF pos > Len(values)
    THEN [err |-> "OutOfArgs", vars |-> vs, pos |-> pos]
    ELSE LET r == FromStr(SlotType[slot], values[pos])
         IN  IF r.ok
             THEN [err |-> "none", vars |-> [vs EXCEPT ![slot] = r.val], pos |-> pos]
             ELSE [err |-> "Err", vars |-> vs, pos |-> pos]

\* <&mut T as Filler>::fill: next() on the shared iterator, then from_str
FillScalar(slot, vs, values, pos) ==
    IF pos > Len(values)
    THEN [err |-> "OutOfArgs", vars |-> vs, pos |-> pos]
    ELSE LET r == FromStr(SlotType[slot], values[pos])
         IN  IF r.ok
             THEN [err |-> "none", vars |-> [vs EXCEPT ![slot] = r.val], pos |-> pos + 1]
             ELSE [err |-> "Err", vars |-> vs, pos |-> pos + 1]

Fill(flag, vs, values, pos) ==
    IF flag.kind = "flag"
    THEN FillBooleanFlag(flag.slot, vs, values, pos)
    ELSE FillScalar(flag.slot, vs, values, pos)

\* format!("invalid flag: {}", &f)
InvalidFlagText(f) == <<"invalid flag: ">> \o f

\* format!("{}: {:?}", f, err) for the two ArgError variants
FillErrorText(f, flag, err) ==
    IF err = "OutOfArgs"
    THEN f \o <<": ", "OutOfArgs">>
    ELSE f \o <<": ", "Err(\"", "error parsing ", TypeName(SlotType[flag.slot]), "\")">>

\* a faulty collection of the leftovers that returns every value token:
\* C2 fails against it
LeftoversAll(values, pos) == values

\* values_iter.map(|s| s.to_owned()).collect(): what the iterator has left
Leftovers(values, pos) == SubSeq(values, pos, Len(values))

\* the loop over the flags vector, from its i-th element on, with the shared
\* iterator at the pos-th value
RECURSIVE ParseLoop(_, _, _, _, _, _)
ParseLoop(reg, fs, i, vs, values, pos) ==
    IF i > Len(fs)
    THEN [tag |-> "Ok", leftovers |-> Leftovers(values, pos), error |-> <<>>,
          vars |-> vs]
    ELSE IF fs[i] \notin DOMAIN reg
    THEN [tag |-> "Err", leftovers |-> <<>>, error |-> InvalidFlagText(fs[i]),
          vars |-> vs]
    ELSE LET r == Fill(reg[fs[i]], vs, values, pos)
         IN  IF r.err # "none"
             THEN [tag |-> "Err", leftovers |-> <<>>,
                   error |-> FillErrorText(fs[i], reg[fs[i]], r.err), vars |-> r.vars]
             ELSE ParseLoop(reg, fs, i + 1, r.vars, values, r.pos)

\* a faulty parse that restores the caller's variables when it fails:
\* C3 fails against it
ParseRunRollback(reg, vs, args) ==
    LET r == ParseLoop(reg, FlagsOf(args), 1, vs, ValuesOf(args), 1)
    IN  IF r.tag = "Err" THEN [r EXCEPT !.vars = vs] ELSE r

\* Arguments::parse on registry reg, caller variables vs and argument list args
ParseRun(reg, vs, args) == ParseLoop(reg, FlagsOf(args), 1, vs, ValuesOf(args), 1)

(* ------------------------------ actions ------------------------------- *)

Init ==
    /\ pc = "reg"
    /\ flags = <<>>
    /\ borrowed = {}
    /\ vars = InitialVars
    /\ log = <<>>
    /\ arguments = <<>>
    /\ ret = [tag |-> "None", leftovers |-> <<>>, error |-> <<>>]

\* arguments.add(&mut slot, name, description)
Add(slot, name, description) ==
    /\ pc = "reg"
    /\ slot \notin borrowed
    /\ flags' = Insert(flags, name, NewFlag(description, "scalar", slot))
    /\ borrowed' = borrowed \cup {slot}
    /\ log' = Append(log, [name |-> name, description |-> description,
                           kind |-> "scalar", slot |-> slot])
    /\ UNCHANGED <<pc, vars, arguments, ret>>

\* arguments.add_bool(&mut slot, name, description)
AddBool(slot, name, description) ==
    /\ pc = "reg"
    /\ slot \notin borrowed
    /\ SlotType[slot] = "bool"
    /\ flags' = Insert(flags, name, NewFlag(description, "flag", slot))
    /\ borrowed' = borrowed \cup {slot}
    /\ log' = Append(log, [name |-> name, description |-> description,
                           kind |-> "flag", slot |-> slot])
    /\ UNCHANGED <<pc, vars, arguments, ret>>

\* arguments.parse(&args[..])
Parse(args) ==
    /\ pc = "reg"
    /\ LET r == ParseRun(flags, vars, args)
       IN  /\ vars' = r.vars
           /\ ret' = [tag |-> r.tag, leftovers |-> r.leftovers, error |-> r.error]
    /\ arguments' = args
    /\ pc' = "done"
    /\ UNCHANGED <<flags, borrowed, log>>

\* the caller registers each name once, as main.rs does, then parses
Next ==
    \/ \E s \in Slots, n \in Names :
          n \notin DOMAIN flags /\ Add(s, n, DescriptionOf[s])
    \/ \E s \in Slots, n \in Names :
          n \notin DOMAIN flags /\ AddBool(s, n, DescriptionOf[s])
    \/ pc = "reg" /\ \E args \in Inputs : Parse(args)

Spec == Init /\ [][Next]_state

\* the caller may register a name again, then parses
NextReg ==
    \/ \E s \in Slots, n \in Names :
          Len(log) < MaxRegs /\ Add(s, n, DescriptionOf[s])
    \/ \E s \in Slots, n \in Names :
          Len(log) < MaxRegs /\ AddBool(s, n, DescriptionOf[s])
    \/ pc = "reg" /\ \E args \in ShortInputs : Parse(args)

SpecReg == Init /\ [][NextReg]_state

(* ----------------- the vocabulary the properties use ------------------ *)
(* These describe an argument list by the positions of its tokens; they   *)
(* do not use the vectors and the loop of parse.                          *)

IsFlagToken(t) == Len(t) >= 2 /\ SubSeq(t, 1, 2) = <<"-", "-">>

NameOf(t) == SubSeq(t, 3, Len(t))

FlagPos(args) == {p \in DOMAIN args : IsFlagToken(args[p])}

ValuePos(args) == {p \in DOMAIN args : ~IsFlagToken(args[p])}

NumValues(args) == Cardinality(ValuePos(args))

\* the k-th value token of args, counting value tokens only
KthValue(args, k) ==
    args[CHOOSE p \in DOMAIN args :
            /\ ~IsFlagToken(args[p])
            /\ Cardinality({q \in 1..p : ~IsFlagToken(args[q])}) = k]

\* the token at p is a flag token that reg binds to a converter of this kind
BoundAs(reg, args, p, kind) ==
    /\ IsFlagToken(args[p])
    /\ NameOf(args[p]) \in DOMAIN reg
    /\ reg[NameOf(args[p])].kind = kind

\* the positions of the flag tokens reg binds to a scalar converter
ScalarPos(reg, args) == {p \in DOMAIN args : BoundAs(reg, args, p, "scalar")}

\* the positions of the flag tokens reg binds to a boolean-flag converter
BoolPos(reg, args) == {p \in DOMAIN args : BoundAs(reg, args, p, "flag")}

\* the flag token at p is the Rank-th scalar-bound flag token of args
Rank(reg, args, p) ==
    Cardinality({q \in 1..p : BoundAs(reg, args, q, "scalar")})

\* the value token paired by count with the scalar-bound flag token at p
PairedValue(reg, args, p) == KthValue(args, Rank(reg, args, p))

SlotAt(reg, args, p) == reg[NameOf(args[p])].slot

Unknown(reg, args, p) == NameOf(args[p]) \notin DOMAIN reg

Exhausted(reg, args, p) ==
    BoundAs(reg, args, p, "scalar") /\ Rank(reg, args, p) > NumValues(args)

Unconvertible(reg, args, p) ==
    /\ BoundAs(reg, args, p, "scalar")
    /\ Rank(reg, args, p) <= NumValues(args)
    /\ ~FromStr(SlotType[SlotAt(reg, args, p)], PairedValue(reg, args, p)).ok

FailsAt(reg, args, p) ==
    Unknown(reg, args, p) \/ Exhausted(reg, args, p) \/ Unconvertible(reg, args, p)

Failing(reg, args) == {p \in FlagPos(args) : FailsAt(reg, args, p)}

\* the position of the first failing flag token; past the end when none fails
Limit(reg, args) ==
    LET failing == Failing(reg, args)
    IN  IF failing = {} THEN Len(args) + 1
        ELSE CHOOSE p \in failing : \A q \in failing : p <= q

\* the flag tokens before position lim that are bound to slot s
Occurrences(reg, args, lim, s) ==
    {p \in 1..(lim - 1) :
        /\ IsFlagToken(args[p])
        /\ NameOf(args[p]) \in DOMAIN reg
        /\ SlotAt(reg, args, p) = s}

Last(S) == CHOOSE p \in S : \A q \in S : q <= p

\* the value the flag tokens before position lim leave in slot s
ExpectedAt(reg, args, lim, s) ==
    LET occ == Occurrences(reg, args, lim, s)
    IN  IF occ = {} THEN InitialVars[s]
        ELSE IF reg[NameOf(args[Last(occ)])].kind = "flag" THEN TRUE
        ELSE FromStr(SlotType[s], PairedValue(reg, args, Last(occ))).val

\* the text of the error of the failing flag token at p
ExpectedError(reg, args, p) ==
    IF Unknown(reg, args, p) THEN <<"invalid flag: ">> \o NameOf(args[p])
    ELSE IF Exhausted(reg, args, p) THEN NameOf(args[p]) \o <<": ", "OutOfArgs">>
    ELSE NameOf(args[p]) \o
         <<": ", "Err(\"", "error parsing ", TypeName(SlotType[SlotAt(reg, args, p)]), "\")">>

\* the variables as the flag tokens before the first failing one leave them
Expected(reg, args) ==
    LET lim == Limit(reg, args)
    IN  [s \in Slots |-> ExpectedAt(reg, args, lim, s)]

Succeeded == pc = "done" /\ ret.tag = "Ok"

Failed == pc = "done" /\ ret.tag = "Err"

(* ------------------------------- claims ------------------------------- *)

\* C1: when parse succeeds, the k-th scalar-bound flag token has a k-th value
\* token to take, and each scalar variable whose flag occurs holds the
\* conversion of the value token paired by count with the last occurrence of
\* its flag, wherever the value tokens sit among the flag tokens.
C1_PairedByCount ==
    Succeeded =>
        /\ \A p \in ScalarPos(flags, arguments) :
              Rank(flags, arguments, p) <= NumValues(arguments)
        /\ \A n \in DOMAIN flags :
              LET occ == {p \in FlagPos(arguments) : NameOf(arguments[p]) = n}
              IN  flags[n].kind = "scalar" /\ occ # {} =>
                    LET c == FromStr(SlotType[flags[n].slot],
                                     PairedValue(flags, arguments, Last(occ)))
                    IN  c.ok /\ vars[flags[n].slot] = c.val

\* C1 witness: a value before the flags and one after them; "--a" takes the
\* first, "--b" the second.
C1_Witness ==
    /\ Succeeded
    /\ arguments = << <<"1">>, <<"-", "-", "a">>, <<"-", "-", "b">>, <<"2">> >>
    /\ DOMAIN flags = Names
    /\ flags[<<"a">>] = NewFlag("a number", "scalar", "number")
    /\ flags[<<"b">>] = NewFlag("a string", "scalar", "string")
    /\ vars["number"] = 1
    /\ vars["string"] = <<"2">>

\* C2: when parse succeeds with n scalar-bound flag tokens and value tokens
\* v1..vm, it returns vn+1..vm in input order and no flag token; an empty
\* input returns no leftovers; an input whose flags are all boolean returns
\* every value token.
C2_Leftovers ==
    pc = "done" =>
        /\ ret.tag = "Ok" =>
              LET n == Cardinality(ScalarPos(flags, arguments))
                  m == NumValues(arguments)
              IN  /\ n <= m
                  /\ Len(ret.leftovers) = m - n
                  /\ \A k \in 1..(m - n) : ret.leftovers[k] = KthValue(arguments, n + k)
                  /\ \A k \in 1..Len(ret.leftovers) : ~IsFlagToken(ret.leftovers[k])
        /\ arguments = <<>> => ret.tag = "Ok" /\ ret.leftovers = <<>>
        /\ FlagPos(arguments) = BoolPos(flags, arguments) =>
              /\ ret.tag = "Ok"
              /\ Len(ret.leftovers) = NumValues(arguments)
              /\ \A k \in 1..Len(ret.leftovers) : ret.leftovers[k] = KthValue(arguments, k)

\* C2 witness: ["1", "--a", "2", "--b"] with scalar a and boolean b: a takes
\* "1", b takes nothing, "2" is left over.
C2_Witness ==
    /\ Succeeded
    /\ arguments = << <<"1">>, <<"-", "-", "a">>, <<"2">>, <<"-", "-", "b">> >>
    /\ DOMAIN flags = Names
    /\ flags[<<"a">>].kind = "scalar"
    /\ flags[<<"b">>].kind = "flag"
    /\ ret.leftovers = << <<"2">> >>

\* C3: when some flag token fails, parse returns the error of the first
\* failing one, and every variable holds what the flag tokens before it left
\* there: nothing is rolled back, the failing flag writes nothing, and no
\* later flag token is looked up or applied.
C3_FirstErrorStops ==
    pc = "done" /\ Failing(flags, arguments) # {} =>
        /\ ret.tag = "Err"
        /\ ret.error = ExpectedError(flags, arguments, Limit(flags, arguments))
        /\ vars = Expected(flags, arguments)

\* C3 witness: "--a" is applied, "--b" fails on an unconvertible value, the
\* later "--a" would have succeeded and is not applied.
C3_Witness ==
    /\ Failed
    /\ arguments = << <<"-", "-", "a">>, <<"-", "-", "b">>, <<"-", "-", "a">>, <<"1">> >>
    /\ DOMAIN flags = Names
    /\ flags[<<"a">>] = NewFlag("a boolean value", "flag", "boolean")
    /\ flags[<<"b">>] = NewFlag("displays the help message", "scalar", "help")
    /\ vars["boolean"] = TRUE
    /\ vars["help"] = TRUE
    /\ ret.error = <<"b", ": ", "Err(\"", "error parsing ", "bool", "\")">>

IsOutOfArgs(r) ==
    r.tag = "Err" /\ Len(r.error) >= 2 /\ r.error[Len(r.error)] = "OutOfArgs"

\* C5: parse fails with "<flag>: OutOfArgs" exactly when the first failing
\* flag token is the k-th scalar-bound one and the whole input holds fewer
\* than k value tokens; the flag's variable keeps what the earlier flag
\* tokens left there, and a boolean flag is never the one reported.
C5_OutOfArgs ==
    pc = "done" =>
        LET p == Limit(flags, arguments)
            exhausted ==
                /\ p \in ScalarPos(flags, arguments)
                /\ Rank(flags, arguments, p) > NumValues(arguments)
        IN  /\ IsOutOfArgs(ret) <=> exhausted
            /\ exhausted =>
                  /\ ret.error = NameOf(arguments[p]) \o <<": ", "OutOfArgs">>
                  /\ flags[NameOf(arguments[p])].kind = "scalar"
                  /\ vars = Expected(flags, arguments)

\* C5 witness: two scalar flags and one value token: the second flag finds
\* the cursor exhausted, the first one's write stays.
C5_Witness ==
    /\ Failed
    /\ arguments = << <<"-", "-", "a">>, <<"-", "-", "b">>, <<"1">> >>
    /\ DOMAIN flags = Names
    /\ flags[<<"a">>] = NewFlag("a number", "scalar", "number")
    /\ flags[<<"b">>] = NewFlag("a string", "scalar", "string")
    /\ ret.error = <<"b", ": ", "OutOfArgs">>
    /\ vars["number"] = 1
    /\ vars["string"] = InitialVars["string"]

\* C6: when the first failing flag token is scalar-bound and its paired value
\* token does not convert, parse fails with "<flag>: Err("error parsing
\* <type>")" and the flag's variable keeps the value it had before this flag
\* token was processed.
C6_ParseError ==
    pc = "done" /\ Failing(flags, arguments) # {} =>
        LET p == Limit(flags, arguments)
        IN  Unconvertible(flags, arguments, p) =>
              LET s == flags[NameOf(arguments[p])].slot
              IN  /\ ret.tag = "Err"
                  /\ ret.error = NameOf(arguments[p]) \o
                        <<": ", "Err(\"", "error parsing ", TypeName(SlotType[s]), "\")">>
                  /\ vars[s] = ExpectedAt(flags, arguments, p, s)

\* C6 witness: "--a 1 --a true" with a bound to a usize: the second
\* conversion fails and the variable keeps the 1 of the first.
C6_Witness ==
    /\ Failed
    /\ arguments = << <<"-", "-", "a">>, <<"1">>, <<"-", "-", "a">>, <<"t", "r", "u", "e">> >>
    /\ <<"a">> \in DOMAIN flags
    /\ flags[<<"a">>] = NewFlag("a number", "scalar", "number")
    /\ ret.error = <<"a", ": ", "Err(\"", "error parsing ", "usize", "\")">>
    /\ vars["number"] = 1

\* the argument list without its boolean-bound flag tokens
WithoutBoolFlags(reg, args) ==
    SelectSeq(args, LAMBDA t :
        ~(IsFlagToken(t) /\ NameOf(t) \in DOMAIN reg /\ reg[NameOf(t)].kind = "flag"))

\* the variables bound to a boolean-flag converter
BoolSlots(reg) == {reg[n].slot : n \in {x \in DOMAIN reg : reg[x].kind = "flag"}}

\* C7: a boolean flag token that is processed sets its variable to true, and
\* what parse returns and what it leaves in every other variable are the same
\* as for the input without the boolean flag tokens.
C7_BoolConsumesNothing ==
    pc = "done" =>
        LET r == ParseRun(flags, InitialVars, WithoutBoolFlags(flags, arguments))
        IN  /\ ret = [tag |-> r.tag, leftovers |-> r.leftovers, error |-> r.error]
            /\ \A s \in Slots \ BoolSlots(flags) : vars[s] = r.vars[s]
            /\ \A p \in BoolPos(flags, arguments) :
                  p < Limit(flags, arguments) => vars[SlotAt(flags, arguments, p)] = TRUE

\* C7 witness: ["--a", "--b", "1"] with boolean a and scalar b.
C7_Witness ==
    /\ Succeeded
    /\ arguments = << <<"-", "-", "a">>, <<"-", "-", "b">>, <<"1">> >>
    /\ DOMAIN flags = Names
    /\ flags[<<"a">>] = NewFlag("a boolean value", "flag", "boolean")
    /\ flags[<<"b">>] = NewFlag("a number", "scalar", "number")
    /\ vars["boolean"] = TRUE
    /\ vars["number"] = 1
    /\ ret.leftovers = <<>>

\* the registration calls made under name n, by their index in the log
CallsOf(n) == {i \in DOMAIN log : log[i].name = n}

\* the variables of the registrations a later one replaced
ReplacedSlots ==
    {log[i].slot : i \in {j \in DOMAIN log : \E k \in DOMAIN log : k > j /\ log[k].name = log[j].name}}

\* C8: the registry maps exactly the names registered, each to the binding
\* (description, converter kind, variable) of the last call made under it;
\* parse leaves the variable of a replaced registration alone and writes the
\* variables as the last registrations direct.
C8_LastRegistrationWins ==
    /\ DOMAIN flags = {log[i].name : i \in DOMAIN log}
    /\ \A n \in DOMAIN flags :
          LET call == log[Last(CallsOf(n))]
          IN  /\ flags[n].description = call.description
              /\ flags[n].kind = call.kind
              /\ flags[n].slot = call.slot
    /\ pc = "done" =>
          /\ \A s \in ReplacedSlots : vars[s] = InitialVars[s]
          /\ LET last == [n \in {log[i].name : i \in DOMAIN log} |->
                            [kind |-> log[Last(CallsOf(n))].kind,
                             slot |-> log[Last(CallsOf(n))].slot]]
             IN  vars = Expected(last, arguments)

\* C8 witness: a is registered over number, then over string; "--a 1" writes
\* the string and leaves the number.
C8_Witness ==
    /\ Succeeded
    /\ Len(log) = 2
    /\ log[1] = [name |-> <<"a">>, description |-> "a number", kind |-> "scalar", slot |-> "number"]
    /\ log[2] = [name |-> <<"a">>, description |-> "a string", kind |-> "scalar", slot |-> "string"]
    /\ arguments = << <<"-", "-", "a">>, <<"1">> >>
    /\ vars["string"] = <<"1">>
    /\ vars["number"] = InitialVars["number"]

\* args is a list of (flag, value) pairs of distinct flags reg binds to
\* scalar converters
IsPairList(reg, args) ==
    /\ Len(args) % 2 = 0
    /\ \A i \in DOMAIN args :
          IF i % 2 = 1 THEN i \in ScalarPos(reg, args) ELSE ~IsFlagToken(args[i])
    /\ \A i, j \in DOMAIN args :
          i % 2 = 1 /\ j % 2 = 1 /\ i # j => args[i] # args[j]

\* args with its k-th and (k+1)-th pairs exchanged
SwapPairs(args, k) ==
    [i \in DOMAIN args |->
        IF i \in {2 * k - 1, 2 * k} THEN args[i + 2]
        ELSE IF i \in {2 * k + 1, 2 * k + 2} THEN args[i - 2]
        ELSE args[i]]

\* C9 as stated: exchanging two adjacent (flag, value) pairs of distinct
\* scalar flags never changes the final variables.
C9_AsStated ==
    pc = "done" /\ IsPairList(flags, arguments) =>
        \A k \in 1..(Len(arguments) \div 2 - 1) :
            ParseRun(flags, InitialVars, SwapPairs(arguments, k)).vars = vars

\* C9 amended: when parse of a list of (flag, value) pairs of distinct scalar
\* flags succeeds, parse of the list with two adjacent pairs exchanged
\* succeeds too, with the same final variables and the same, empty leftovers.
C9_PairOrderOnSuccess ==
    Succeeded /\ IsPairList(flags, arguments) =>
        /\ ret.leftovers = <<>>
        /\ \A k \in 1..(Len(arguments) \div 2 - 1) :
              LET r == ParseRun(flags, InitialVars, SwapPairs(arguments, k))
              IN  r.tag = "Ok" /\ r.leftovers = ret.leftovers /\ r.vars = vars

\* C9 witness: ["--b", "2", "--a", "1"] leaves a = 1 and b = 2, as
\* ["--a", "1", "--b", "2"] does.
C9_Witness ==
    /\ Succeeded
    /\ arguments = << <<"-", "-", "b">>, <<"2">>, <<"-", "-", "a">>, <<"1">> >>
    /\ IsPairList(flags, arguments)
    /\ flags[<<"a">>].slot = "number"
    /\ flags[<<"b">>].slot = "string"
    /\ vars["number"] = 1
    /\ vars["string"] = <<"2">>
    /\ ParseRun(flags, InitialVars, SwapPairs(arguments, 1)).vars = vars

\* C10: whatever parse returns, a bound variable whose flag name is not among
\* the input's flag tokens keeps its initial value, a variable bound to a
\* boolean flag is false only if it was false initially, and an input of value
\* tokens alone changes no variable.
C10_Frame ==
    pc = "done" =>
        /\ \A n \in DOMAIN flags :
              (\A p \in FlagPos(arguments) : NameOf(arguments[p]) # n) =>
                  vars[flags[n].slot] = InitialVars[flags[n].slot]
        /\ \A s \in BoolSlots(flags) : vars[s] = FALSE => InitialVars[s] = FALSE
        /\ FlagPos(arguments) = {} => vars = InitialVars

\* C10 witness: a failing parse whose only flag token is "--a"; the number
\* bound to a and the initially true boolean-flag variable bound to b are as
\* before.
C10_Witness ==
    /\ Failed
    /\ arguments = << <<"1">>, <<"-", "-", "a">>, <<"-", "-", "a">>, <<"t", "r", "u", "e">> >>
    /\ DOMAIN flags = Names
    /\ flags[<<"a">>] = NewFlag("a number", "scalar", "number")
    /\ flags[<<"b">>] = NewFlag("displays the help message", "flag", "help")
    /\ vars["help"] = TRUE
    /\ vars["number"] = 1
    /\ vars["string"] = InitialVars["string"]

====
